---- MODULE Spec2Model ----
(***************************************************************************)
(* A model of the IndexManager of Zeno's queue index: the manager lock,    *)
(* Add/Pop with their WAL append, the grouped-commit counters, the WAL     *)
(* commit syncer, AwaitWALCommitted, the periodic dump and Close.          *)
(*                                                                         *)
(* Everything a caller does between im.Lock() and im.Unlock() is invisible *)
(* to the other goroutines except the atomic counters, so a locked section *)
(* is cut into steps only where an atomic counter is touched or where a    *)
(* goroutine can block.  An unbuffered channel is a rendezvous: the send   *)
(* and the receive are one joint step, enabled when both sides are there.  *)
(***************************************************************************)
EXTENDS Integers, Sequences, FiniteSets, TLC

\* ------------------------------------------------------------------ bounds
MaxOps == 2        \* Add / Pop / WALCommit calls in a run beside the syncer
MaxSeqOps == 3     \* Add / Pop / WALCommit calls in a run without the syncer
MaxDumps == 1      \* ticks of the dump ticker in a run
MaxAwaits == 1     \* AwaitWALCommitted calls in a run, one caller at a time
MaxFairAwaits == 2 \* AwaitWALCommitted calls in a run, callers side by side
MaxRestarts == 1   \* abrupt restarts in a run

DefaultIoPercent == 10   \* im.WalIoPercent = 10
WalMinInterval == 10     \* im.WalMinInterval = 10 * time.Millisecond, in ms

Hosts == {"h1", "h2"}
Ids == {"b1", "b2"}
Positions == {0, 100}
Sizes == {10}
HostOrder == <<"h1", "h2">>   \* the stable order of the hosts
Awaiters == {"a1", "a2"}
Percents == {0, 1, 10, 30, 50, 60, 100}  \* values a caller gives WalIoPercent
Durations == {0, 3, 30}                   \* durations of an fsync, in ms
NoDuration == {0}

\* ------------------------------------------------------------------- state
VARIABLES
  useCommit,           \* im.useCommit
  mu,                  \* the manager lock: "free", or the operation holding it
  hostIndex,           \* im.hostIndex: host -> FIFO of blobs (hosts with blobs only)
  wal,                 \* the records in the WAL file
  snapshot,            \* the entries in the index file
  filesClosed,         \* walFile / indexFile closed by Close
  opsSinceDump, totalOps,
  walCommit,           \* flying commit id
  walCommited,         \* commit id synced to disk
  walNotifyListeners,
  walSyncerRunning,
  walStopClosed,       \* close(im.walStopChan) has run
  tickerStopped, dumps,
  \* the operation holding the lock
  op,                  \* its arguments and locals, and whether Close had returned
  opPc,                \* where Add / Pop stands
  helperPc,            \* where Pop's helper goroutine stands
  ret,                 \* what the last Add / Pop returned
  opCount,
  \* walCommitsSyncer
  syncerPc, stopping, flyingCommit, listeners,
  \* AwaitWALCommitted callers
  awPc, awCommit, awId, awaits,
  \* Close, the stop forwarder, periodicDump
  closePc, closeErr, fwdPc, dumpPc,
  \* the syncer's duty cycle
  WalIoPercent, lastTrySyncDuration, sleepTime,
  \* history: the WAL records ever appended / covered by a successful fsync, and
  \* the commit ids in the order they were issued
  appended, synced, issued,
  \* history: per host, the blobs of the Adds that returned nil and the blobs
  \* returned by Pop, in order
  added, popped,
  \* history: the restarts so far and what the last one found
  restart,
  \* history: the number of WAL records when the syncer took the stop, and the
  \* fsync it made while stopping
  stopAt, final

vars == <<useCommit, mu, hostIndex, wal, snapshot, filesClosed, opsSinceDump, totalOps,
          walCommit, walCommited, walNotifyListeners, walSyncerRunning, walStopClosed,
          tickerStopped, dumps, op, opPc, helperPc, ret, opCount,
          syncerPc, stopping, flyingCommit, listeners,
          awPc, awCommit, awId, awaits,
          closePc, closeErr, fwdPc, dumpPc,
          WalIoPercent, lastTrySyncDuration, sleepTime,
          appended, synced, issued, added, popped, restart, stopAt, final>>

mgrVars == <<hostIndex, wal, snapshot, opsSinceDump, totalOps>>
ctrVars == <<walCommit, walCommited, walNotifyListeners>>
opVars == <<mu, op, opPc, helperPc, ret, opCount>>
syncerVars == <<syncerPc, stopping, flyingCommit, listeners, walSyncerRunning, walStopClosed>>
awVars == <<awPc, awCommit, awId, awaits>>
closeVars == <<closePc, closeErr, filesClosed, tickerStopped>>
bgVars == <<fwdPc, dumpPc, dumps>>
histVars == <<appended, synced, issued>>
sleepVars == <<WalIoPercent, lastTrySyncDuration, sleepTime>>
fifoVars == <<added, popped>>
stopVars == <<stopAt, final>>

NoBlob == [id |-> "", position |-> 0, size |-> 0]
NoOp == [host |-> "", blob |-> NoBlob, commit |-> 0, afterClose |-> FALSE]
NoRet == [n |-> 0, op |-> "none", err |-> "nil", commit |-> 0, blob |-> NoBlob]
NoRestart == [n |-> 0, how |-> "none", inFlight |-> FALSE]
NoFinal == [res |-> "none", upto |-> 0]

\* NewIndexManager on fresh files, but for WalIoPercent
InitManager ==
  /\ useCommit \in BOOLEAN
  /\ mu = "free"
  /\ hostIndex = <<>>
  /\ wal = <<>>
  /\ snapshot = <<>>
  /\ filesClosed = FALSE
  /\ opsSinceDump = 0 /\ totalOps = 0
  /\ walCommit = 0 /\ walCommited = 0 /\ walNotifyListeners = 0
  /\ walSyncerRunning = FALSE
  /\ walStopClosed = FALSE
  /\ tickerStopped = FALSE /\ dumps = 0
  /\ op = NoOp /\ opPc = "idle" /\ helperPc = "none"
  /\ ret = NoRet /\ opCount = 0
  /\ syncerPc = IF useCommit THEN "start" ELSE "none"
  /\ stopping = FALSE /\ flyingCommit = 0 /\ listeners = 0
  /\ awPc = [a \in Awaiters |-> "idle"]
  /\ awCommit = [a \in Awaiters |-> 0]
  /\ awId = [a \in Awaiters |-> 0]
  /\ awaits = 0
  /\ closePc = "idle" /\ closeErr = "nil"
  /\ fwdPc = "select" /\ dumpPc = "select"
  /\ appended = 0 /\ synced = 0 /\ issued = <<>>
  /\ lastTrySyncDuration = 0 /\ sleepTime = 0
  /\ added = [h \in Hosts |-> <<>>] /\ popped = [h \in Hosts |-> <<>>]
  /\ restart = NoRestart
  /\ stopAt = -1 /\ final = NoFinal

Init == InitManager /\ WalIoPercent = DefaultIoPercent

\* ------------------------------------------------------------ the Index
\* Index.add rejects an id the host's queue already holds
IndexHas(idx, h, id) ==
  /\ h \in DOMAIN idx
  /\ \E i \in 1..Len(idx[h]) : idx[h][i].id = id

\* Index.add: append to the host's queue
IndexAdd(idx, h, b) ==
  IF h \in DOMAIN idx THEN [idx EXCEPT ![h] = Append(@, b)] ELSE idx @@ (h :> <<b>>)

\* Index.pop, first half: the oldest blob of the host, NoBlob (nil) when there is none
IndexPeek(idx, h) ==
  IF h \in DOMAIN idx /\ Len(idx[h]) > 0 THEN idx[h][1] ELSE NoBlob

\* Index.pop, second half: commit the removal; a host left without blobs is dropped
IndexRemoveHead(idx, h) ==
  IF Len(idx[h]) > 1 THEN [idx EXCEPT ![h] = Tail(@)]
  ELSE [x \in DOMAIN idx \ {h} |-> idx[x]]

\* unsafeWriteToWAL: one record appended to the WAL file
WriteToWAL(w, opname, h, b) == Append(w, [op |-> opname, host |-> h, blob |-> b])

\* IsEmpty: len(im.hostIndex.index) == 0
IsEmpty == DOMAIN hostIndex = {}

\* ------------------------------------------------------- commit counters
\* IsWALCommited: walCommited.Load() >= commit
IsWALCommited(commit) == walCommited >= commit

\* mutant of WALCommitValue: the counter is read, not advanced
WALCommitValueNoAdd(flying) == flying

\* WALCommit: walCommit.Add(1)
WALCommitValue(flying) == flying + 1

\* what a caller of Add / Pop gets back; the deferred Unlock runs
Return(opname, err, commit, b) ==
  /\ ret' = [n |-> opCount, op |-> opname, err |-> err, commit |-> commit, blob |-> b]
  /\ mu' = "free"
  /\ opPc' = "idle"
  /\ op' = NoOp

\* mutant of Add: the commit id is taken before the WAL write, so a failed write
\* has advanced the flying id
AddCommitsBeforeWrite(h, id, pos, size, ok) ==
  /\ mu = "free"
  /\ filesClosed => ~ok
  /\ opCount' = opCount + 1
  /\ walCommit' = IF useCommit THEN WALCommitValue(walCommit) ELSE walCommit
  /\ issued' = IF useCommit THEN Append(issued, [id |-> walCommit', rec |-> appended + 1])
               ELSE issued
  /\ IF ok
     THEN /\ wal' = WriteToWAL(wal, "ADD", h, [id |-> id, position |-> pos, size |-> size])
          /\ appended' = appended + 1
          /\ mu' = "add"
          /\ op' = [host |-> h, blob |-> [id |-> id, position |-> pos, size |-> size],
                    commit |-> IF useCommit THEN walCommit' ELSE 0,
                    afterClose |-> closePc = "done"]
          /\ opPc' = "addIndex"
          /\ ret' = ret
     ELSE /\ ret' = [n |-> opCount', op |-> "add", err |-> "wal", commit |-> 0,
                     blob |-> NoBlob]
          /\ UNCHANGED <<wal, appended, mu, op, opPc>>
  /\ UNCHANGED <<useCommit, hostIndex, snapshot, opsSinceDump, totalOps, helperPc,
                 synced, walCommited, walNotifyListeners>>
  /\ UNCHANGED <<syncerVars, awVars, closeVars, bgVars>>
  /\ UNCHANGED <<added, popped, restart, final, stopAt, WalIoPercent, lastTrySyncDuration, sleepTime>>

\* ------------------------------------------------------------------- Add
\* Add -> addCommitted / add: Lock, then unsafeWriteToWAL; a failed write returns
\* (0, err) at once
Add(h, id, pos, size, ok) ==
  /\ mu = "free"
  /\ filesClosed => ~ok
  /\ opCount' = opCount + 1
  /\ IF ok
     THEN /\ wal' = WriteToWAL(wal, "ADD", h, [id |-> id, position |-> pos, size |-> size])
          /\ appended' = appended + 1
          /\ mu' = "add"
          /\ op' = [host |-> h, blob |-> [id |-> id, position |-> pos, size |-> size],
                    commit |-> 0, afterClose |-> closePc = "done"]
          /\ opPc' = IF useCommit THEN "addCommit" ELSE "addIndex"
          /\ ret' = ret
     ELSE /\ ret' = [n |-> opCount', op |-> "add", err |-> "wal", commit |-> 0,
                     blob |-> NoBlob]
          /\ UNCHANGED <<wal, appended, mu, op, opPc>>
  /\ UNCHANGED <<useCommit, hostIndex, snapshot, opsSinceDump, totalOps, helperPc,
                 synced, issued>>
  /\ UNCHANGED <<ctrVars, syncerVars, awVars, closeVars, bgVars>>
  /\ UNCHANGED <<added, popped, restart, final, stopAt, WalIoPercent, lastTrySyncDuration, sleepTime>>

\* addCommitted: commit = im.WALCommit()
AddWALCommit ==
  /\ opPc = "addCommit"
  /\ walCommit' = WALCommitValue(walCommit)
  /\ op' = [op EXCEPT !.commit = walCommit']
  /\ issued' = Append(issued, [id |-> walCommit', rec |-> appended])
  /\ opPc' = "addIndex"
  /\ UNCHANGED <<useCommit, mgrVars, walCommited, walNotifyListeners, mu, helperPc, ret,
                 opCount, appended, synced>>
  /\ UNCHANGED <<syncerVars, awVars, closeVars, bgVars>>
  /\ UNCHANGED <<added, popped, restart, final, stopAt, WalIoPercent, lastTrySyncDuration, sleepTime>>

\* addCommitted / add: hostIndex.add, the op counters, return
AddIndex ==
  /\ opPc = "addIndex"
  /\ IF IndexHas(hostIndex, op.host, op.blob.id)
     THEN /\ Return("add", "dup", op.commit, NoBlob)
          /\ UNCHANGED <<hostIndex, opsSinceDump, totalOps, added>>
     ELSE /\ hostIndex' = IndexAdd(hostIndex, op.host, op.blob)
          /\ opsSinceDump' = opsSinceDump + 1
          /\ totalOps' = totalOps + 1
          /\ added' = [added EXCEPT ![op.host] = Append(@, op.blob)]
          /\ Return("add", "nil", op.commit, NoBlob)
  /\ UNCHANGED <<useCommit, wal, snapshot, helperPc, opCount>>
  /\ UNCHANGED <<ctrVars, syncerVars, awVars, closeVars, bgVars, histVars>>
  /\ UNCHANGED <<popped, restart, final, stopAt, WalIoPercent, lastTrySyncDuration, sleepTime>>

\* a direct call of WALCommit(), with no WAL record
WALCommitCall ==
  /\ useCommit
  /\ opCount' = opCount + 1
  /\ walCommit' = WALCommitValue(walCommit)
  /\ issued' = Append(issued, [id |-> walCommit', rec |-> 0])
  /\ UNCHANGED <<useCommit, mgrVars, walCommited, walNotifyListeners, appended, synced>>
  /\ UNCHANGED <<mu, op, opPc, helperPc, ret>>
  /\ UNCHANGED <<syncerVars, awVars, closeVars, bgVars>>
  /\ UNCHANGED <<added, popped, restart, final, stopAt, WalIoPercent, lastTrySyncDuration, sleepTime>>

\* mutant of Pop: the helper does not test the blob for nil and appends a POP record
\* for the pop of a host without blobs
PopWritesForNil(h) ==
  /\ mu = "free"
  /\ opCount' = opCount + 1
  /\ IF IndexPeek(hostIndex, h) = NoBlob
     THEN /\ helperPc' = "done"
          /\ wal' = WriteToWAL(wal, "POP", h, NoBlob)
          /\ appended' = appended + 1
          /\ ret' = [n |-> opCount', op |-> "pop", err |-> "empty", commit |-> 0,
                     blob |-> NoBlob]
          /\ UNCHANGED <<mu, op, opPc>>
     ELSE /\ mu' = "pop"
          /\ op' = [host |-> h, blob |-> IndexPeek(hostIndex, h), commit |-> 0,
                    afterClose |-> closePc = "done"]
          /\ opPc' = "popWaitWAL"
          /\ helperPc' = "write"
          /\ ret' = ret
          /\ UNCHANGED <<wal, appended>>
  /\ UNCHANGED <<useCommit, hostIndex, snapshot, opsSinceDump, totalOps, synced, issued>>
  /\ UNCHANGED <<ctrVars, syncerVars, awVars, closeVars, bgVars>>
  /\ UNCHANGED <<added, popped, restart, final, stopAt, WalIoPercent, lastTrySyncDuration, sleepTime>>

\* ------------------------------------------------------------------- Pop
\* Pop -> popCommitted / pop: Lock, start the helper, enter hostIndex.pop.  With no
\* blob for the host, hostIndex.pop sends nil on blobChan, the helper returns on it and
\* Pop returns the error; otherwise the helper receives the oldest blob and
\* hostIndex.pop waits on WALSuccessChan.
Pop(h) ==
  /\ mu = "free"
  /\ opCount' = opCount + 1
  /\ IF IndexPeek(hostIndex, h) = NoBlob
     THEN /\ helperPc' = "done"
          /\ ret' = [n |-> opCount', op |-> "pop", err |-> "empty", commit |-> 0,
                     blob |-> NoBlob]
          /\ UNCHANGED <<mu, op, opPc>>
     ELSE /\ mu' = "pop"
          /\ op' = [host |-> h, blob |-> IndexPeek(hostIndex, h), commit |-> 0,
                    afterClose |-> closePc = "done"]
          /\ opPc' = "popWaitWAL"
          /\ helperPc' = "write"
          /\ ret' = ret
  /\ UNCHANGED <<useCommit, mgrVars, ctrVars, syncerVars, awVars, closeVars, bgVars,
                 histVars>>
  /\ UNCHANGED <<added, popped, restart, final, stopAt, WalIoPercent, lastTrySyncDuration, sleepTime>>

\* the helper: unsafeWriteToWAL(OpPop, ...); on an error it goes on to send the error
\* on errChan, otherwise it sets the results and goes on to send true on WALSuccessChan
HelperWriteToWAL(ok) ==
  /\ helperPc = "write"
  /\ filesClosed => ~ok
  /\ IF ok
     THEN /\ wal' = WriteToWAL(wal, "POP", op.host, op.blob)
          /\ appended' = appended + 1
          /\ helperPc' = "sendSuccess"
     ELSE /\ helperPc' = "sendErr"
          /\ UNCHANGED <<wal, appended>>
  /\ UNCHANGED <<useCommit, hostIndex, snapshot, opsSinceDump, totalOps, mu, op, opPc,
                 ret, opCount, synced, issued>>
  /\ UNCHANGED <<ctrVars, syncerVars, awVars, closeVars, bgVars>>
  /\ UNCHANGED <<added, popped, restart, final, stopAt, WalIoPercent, lastTrySyncDuration, sleepTime>>

\* the helper's send on WALSuccessChan meets hostIndex.pop's receive: true commits
\* the removal, false leaves the blob at the head; hostIndex.pop returns nil and Pop
\* goes on to receive from errChan
HelperSendSuccess ==
  /\ helperPc \in {"sendSuccess", "sendFalse"}
  /\ opPc = "popWaitWAL"
  /\ hostIndex' = IF helperPc = "sendSuccess" THEN IndexRemoveHead(hostIndex, op.host)
                  ELSE hostIndex
  /\ helperPc' = IF helperPc = "sendSuccess" THEN "sendNil" ELSE "sendSuccess"
  /\ opPc' = "popRecvErr"
  /\ UNCHANGED <<useCommit, wal, snapshot, opsSinceDump, totalOps, mu, op, ret, opCount>>
  /\ UNCHANGED <<ctrVars, syncerVars, awVars, closeVars, bgVars, histVars>>
  /\ UNCHANGED <<added, popped, restart, final, stopAt, WalIoPercent, lastTrySyncDuration, sleepTime>>

\* Pop's receive from errChan meets the helper's send: an error returns at once (the
\* helper goes on to its send of false), nil goes on
PopRecvErr ==
  /\ opPc = "popRecvErr"
  /\ helperPc \in {"sendErr", "sendNil"}
  /\ IF helperPc = "sendErr"
     THEN /\ Return("pop", "wal", 0, NoBlob)
          /\ helperPc' = "sendFalse"
     ELSE /\ opPc' = IF useCommit THEN "popCommit" ELSE "popReturn"
          /\ helperPc' = "done"
          /\ UNCHANGED <<mu, op, ret>>
  /\ UNCHANGED <<useCommit, mgrVars, opCount>>
  /\ UNCHANGED <<ctrVars, syncerVars, awVars, closeVars, bgVars, histVars>>
  /\ UNCHANGED <<added, popped, restart, final, stopAt, WalIoPercent, lastTrySyncDuration, sleepTime>>

\* popCommitted: commit = im.WALCommit()
PopWALCommit ==
  /\ opPc = "popCommit"
  /\ walCommit' = WALCommitValue(walCommit)
  /\ op' = [op EXCEPT !.commit = walCommit']
  /\ issued' = Append(issued, [id |-> walCommit', rec |-> appended])
  /\ opPc' = "popReturn"
  /\ UNCHANGED <<useCommit, mgrVars, walCommited, walNotifyListeners, mu, helperPc, ret,
                 opCount, appended, synced>>
  /\ UNCHANGED <<syncerVars, awVars, closeVars, bgVars>>
  /\ UNCHANGED <<added, popped, restart, final, stopAt, WalIoPercent, lastTrySyncDuration, sleepTime>>

\* mutant of PopReturn: the zero results of the error paths are returned
PopReturnZeroResults ==
  /\ opPc = "popReturn"
  /\ opsSinceDump' = opsSinceDump + 1
  /\ totalOps' = totalOps + 1
  /\ popped' = [popped EXCEPT ![op.host] = Append(@, NoBlob)]
  /\ Return("pop", "nil", op.commit, NoBlob)
  /\ UNCHANGED <<useCommit, hostIndex, wal, snapshot, helperPc, opCount>>
  /\ UNCHANGED <<ctrVars, syncerVars, awVars, closeVars, bgVars, histVars>>
  /\ UNCHANGED <<added, restart, final, stopAt, WalIoPercent, lastTrySyncDuration, sleepTime>>

\* popCommitted / pop: the op counters, return of the results the helper has set
PopReturn ==
  /\ opPc = "popReturn"
  /\ opsSinceDump' = opsSinceDump + 1
  /\ totalOps' = totalOps + 1
  /\ popped' = [popped EXCEPT ![op.host] = Append(@, op.blob)]
  /\ Return("pop", "nil", op.commit, op.blob)
  /\ UNCHANGED <<useCommit, hostIndex, wal, snapshot, helperPc, opCount>>
  /\ UNCHANGED <<ctrVars, syncerVars, awVars, closeVars, bgVars, histVars>>
  /\ UNCHANGED <<added, restart, final, stopAt, WalIoPercent, lastTrySyncDuration, sleepTime>>

\* ------------------------------------------------------ walCommitsSyncer
\* the sleep before a sync: lastTrySyncDuration * time.Duration((100-p)/p), an
\* integer division, and not below WalMinInterval
SleepTime(d, p) ==
  LET t == d * ((100 - p) \div p)
  IN IF t < WalMinInterval THEN WalMinInterval ELSE t

\* walSyncerRunning.CompareAndSwap(false, true); a second syncer returns.  A
\* WalIoPercent outside [1, 100] is set to 10
SyncerStart ==
  /\ syncerPc = "start"
  /\ IF walSyncerRunning THEN syncerPc' = "none" ELSE syncerPc' = "loop"
  /\ walSyncerRunning' = TRUE
  /\ WalIoPercent' = IF walSyncerRunning \/ WalIoPercent \in 1..100 THEN WalIoPercent
                     ELSE DefaultIoPercent
  /\ UNCHANGED <<stopping, flyingCommit, listeners, walStopClosed>>
  /\ UNCHANGED <<useCommit, mgrVars, ctrVars, opVars, awVars, closeVars, bgVars, histVars>>
  /\ UNCHANGED <<added, popped, restart, final, stopAt, lastTrySyncDuration, sleepTime>>

\* mutant of SyncerSelect: the syncer leaves when it takes the stop, without a last sync
SyncerSelectStopsAtOnce ==
  /\ syncerPc = "loop"
  /\ IF stopping
     THEN /\ syncerPc' = "exitClose"
          /\ UNCHANGED <<stopping, closePc, stopAt, sleepTime>>
     ELSE /\ syncerPc' = IF closePc = "sendWalStop" THEN "exitClose" ELSE "load"
          /\ IF closePc = "sendWalStop"
             THEN stopping' = TRUE /\ closePc' = "waitAck" /\ stopAt' = appended
             ELSE UNCHANGED <<stopping, closePc, stopAt>>
          /\ sleepTime' = SleepTime(lastTrySyncDuration, WalIoPercent)
  /\ UNCHANGED <<flyingCommit, listeners, walSyncerRunning, walStopClosed>>
  /\ UNCHANGED <<closeErr, filesClosed, tickerStopped>>
  /\ UNCHANGED <<useCommit, mgrVars, ctrVars, opVars, awVars, bgVars, histVars>>
  /\ UNCHANGED <<added, popped, restart, final, WalIoPercent, lastTrySyncDuration>>

\* top of the loop: break when stopping; else the non-blocking receive from
\* walStopChan, which takes Close's stop only if Close is blocked in its send; then
\* the sleep
SyncerSelect ==
  /\ syncerPc = "loop"
  /\ IF stopping
     THEN /\ syncerPc' = "exitClose"
          /\ UNCHANGED <<stopping, closePc, stopAt, sleepTime>>
     ELSE /\ syncerPc' = "load"
          /\ IF closePc = "sendWalStop"
             THEN stopping' = TRUE /\ closePc' = "waitAck" /\ stopAt' = appended
             ELSE UNCHANGED <<stopping, closePc, stopAt>>
          /\ sleepTime' = SleepTime(lastTrySyncDuration, WalIoPercent)
  /\ UNCHANGED <<flyingCommit, listeners, walSyncerRunning, walStopClosed>>
  /\ UNCHANGED <<closeErr, filesClosed, tickerStopped>>
  /\ UNCHANGED <<useCommit, mgrVars, ctrVars, opVars, awVars, bgVars, histVars>>
  /\ UNCHANGED <<added, popped, restart, final, WalIoPercent, lastTrySyncDuration>>

\* flyingCommit := im.walCommit.Load(), before the lock is taken
SyncerLoad ==
  /\ syncerPc = "load"
  /\ flyingCommit' = walCommit
  /\ syncerPc' = "sync"
  /\ UNCHANGED <<stopping, listeners, walSyncerRunning, walStopClosed>>
  /\ UNCHANGED <<useCommit, mgrVars, ctrVars, opVars, awVars, closeVars, bgVars, histVars>>
  /\ UNCHANGED <<added, popped, restart, final, stopAt, WalIoPercent, lastTrySyncDuration, sleepTime>>

\* the fsync made while stopping: its result and the WAL records it covers
FinalSync(ok) ==
  IF ~stopping THEN final
  ELSE [res |-> IF final.res # "none" THEN "twice" ELSE IF ok THEN "ok" ELSE "failed",
        upto |-> appended]

\* mutant of SyncerSync: a failed sync resets the synced commit id
SyncerSyncResetsOnError(ok, d) ==
  /\ syncerPc = "sync"
  /\ mu = "free"
  /\ IF ok
     THEN /\ synced' = appended
          /\ syncerPc' = "store"
          /\ UNCHANGED walCommited
     ELSE /\ syncerPc' = IF stopping THEN "exitClose" ELSE "retry"
          /\ walCommited' = 0
          /\ UNCHANGED synced
  /\ flyingCommit' = IF ok THEN flyingCommit ELSE 0
  /\ lastTrySyncDuration' = d
  /\ final' = FinalSync(ok)
  /\ UNCHANGED <<stopping, listeners, walSyncerRunning, walStopClosed>>
  /\ UNCHANGED <<appended, issued, walCommit, walNotifyListeners>>
  /\ UNCHANGED <<useCommit, mgrVars, opVars, awVars, closeVars, bgVars>>
  /\ UNCHANGED <<added, popped, restart, stopAt, WalIoPercent, sleepTime>>

\* mutant of SyncerSync: the error of unsafeWalSync is not looked at, the cycle
\* goes on to store and broadcast
SyncerSyncIgnoresError(ok, d) ==
  /\ syncerPc = "sync"
  /\ mu = "free"
  /\ synced' = IF ok THEN appended ELSE synced
  /\ syncerPc' = "store"
  /\ lastTrySyncDuration' = d
  /\ final' = FinalSync(ok)
  /\ UNCHANGED <<stopping, flyingCommit, listeners, walSyncerRunning, walStopClosed>>
  /\ UNCHANGED <<appended, issued>>
  /\ UNCHANGED <<useCommit, mgrVars, ctrVars, opVars, awVars, closeVars, bgVars>>
  /\ UNCHANGED <<added, popped, restart, stopAt, WalIoPercent, sleepTime>>

\* mutant of SyncerSync: an error ends the syncer whether it is stopping or not
SyncerSyncGivesUp(ok, d) ==
  /\ syncerPc = "sync"
  /\ mu = "free"
  /\ IF ok
     THEN /\ synced' = appended
          /\ syncerPc' = "store"
     ELSE /\ syncerPc' = "exitClose"
          /\ UNCHANGED synced
  /\ flyingCommit' = IF ok THEN flyingCommit ELSE 0
  /\ lastTrySyncDuration' = d
  /\ final' = FinalSync(ok)
  /\ UNCHANGED <<stopping, listeners, walSyncerRunning, walStopClosed>>
  /\ UNCHANGED <<appended, issued>>
  /\ UNCHANGED <<useCommit, mgrVars, ctrVars, opVars, awVars, closeVars, bgVars>>
  /\ UNCHANGED <<added, popped, restart, stopAt, WalIoPercent, sleepTime>>

\* im.Lock(); unsafeWalSync(); im.Unlock(); lastTrySyncDuration = time.Since(start).
\* On an error: return when stopping, else log it and continue
SyncerSync(ok, d) ==
  /\ syncerPc = "sync"
  /\ mu = "free"
  /\ IF ok
     THEN /\ synced' = appended
          /\ syncerPc' = "store"
     ELSE /\ syncerPc' = IF stopping THEN "exitClose" ELSE "retry"
          /\ UNCHANGED synced
  /\ flyingCommit' = IF ok THEN flyingCommit ELSE 0
  /\ lastTrySyncDuration' = d
  /\ final' = FinalSync(ok)
  /\ UNCHANGED <<stopping, listeners, walSyncerRunning, walStopClosed>>
  /\ UNCHANGED <<appended, issued>>
  /\ UNCHANGED <<useCommit, mgrVars, ctrVars, opVars, awVars, closeVars, bgVars>>
  /\ UNCHANGED <<added, popped, restart, stopAt, WalIoPercent, sleepTime>>

\* "failed to sync WAL, retrying": continue with the next cycle
SyncerRetry ==
  /\ syncerPc = "retry"
  /\ syncerPc' = "loop"
  /\ UNCHANGED <<stopping, flyingCommit, listeners, walSyncerRunning, walStopClosed>>
  /\ UNCHANGED <<useCommit, mgrVars, ctrVars, opVars, awVars, closeVars, bgVars, histVars>>
  /\ UNCHANGED <<sleepVars, fifoVars, stopVars, restart>>

\* mutant of SyncerStore: the id after the loaded one is stored
SyncerStoreNextId ==
  /\ syncerPc = "store"
  /\ walCommited' = flyingCommit + 1
  /\ syncerPc' = "count"
  /\ UNCHANGED <<walCommit, walNotifyListeners>>
  /\ UNCHANGED <<stopping, flyingCommit, listeners, walSyncerRunning, walStopClosed>>
  /\ UNCHANGED <<useCommit, mgrVars, opVars, awVars, closeVars, bgVars, histVars>>
  /\ UNCHANGED <<added, popped, restart, final, stopAt, WalIoPercent, lastTrySyncDuration, sleepTime>>

\* commited := flyingCommit; im.walCommited.Store(commited)
SyncerStore ==
  /\ syncerPc = "store"
  /\ walCommited' = flyingCommit
  /\ syncerPc' = "count"
  /\ UNCHANGED <<walCommit, walNotifyListeners>>
  /\ UNCHANGED <<stopping, flyingCommit, listeners, walSyncerRunning, walStopClosed>>
  /\ UNCHANGED <<useCommit, mgrVars, opVars, awVars, closeVars, bgVars, histVars>>
  /\ UNCHANGED <<added, popped, restart, final, stopAt, WalIoPercent, lastTrySyncDuration, sleepTime>>

\* the drain loop finds the unbuffered channel empty;
\* listeners := im.walNotifyListeners.Load(), the number of sends still to do.
\* (flyingCommit, commited and listeners are locals of one iteration of the loop:
\* they are 0 between iterations)
SyncerCount ==
  /\ syncerPc = "count"
  /\ listeners' = walNotifyListeners
  /\ syncerPc' = IF listeners' > 0 THEN "send" ELSE "loop"
  /\ flyingCommit' = IF listeners' > 0 THEN flyingCommit ELSE 0
  /\ UNCHANGED <<stopping, walSyncerRunning, walStopClosed>>
  /\ UNCHANGED <<useCommit, mgrVars, ctrVars, opVars, awVars, closeVars, bgVars, histVars>>
  /\ UNCHANGED <<added, popped, restart, final, stopAt, WalIoPercent, lastTrySyncDuration, sleepTime>>

\* one send of commited on walCommitedNotify meets awaiter a's receive
SyncerSend(a) ==
  /\ syncerPc = "send"
  /\ awPc[a] = "recv"
  /\ awId' = [awId EXCEPT ![a] = flyingCommit]
  /\ awPc' = [awPc EXCEPT ![a] = "dec"]
  /\ listeners' = listeners - 1
  /\ syncerPc' = IF listeners' > 0 THEN "send" ELSE "loop"
  /\ flyingCommit' = IF listeners' > 0 THEN flyingCommit ELSE 0
  /\ UNCHANGED <<stopping, walSyncerRunning, walStopClosed>>
  /\ UNCHANGED <<awCommit, awaits>>
  /\ UNCHANGED <<useCommit, mgrVars, ctrVars, opVars, closeVars, bgVars, histVars>>
  /\ UNCHANGED <<added, popped, restart, final, stopAt, WalIoPercent, lastTrySyncDuration, sleepTime>>

\* the deferred close(im.walStopChan) runs first
SyncerExitClose ==
  /\ syncerPc = "exitClose"
  /\ walStopClosed' = TRUE
  /\ syncerPc' = "exitStore"
  /\ UNCHANGED <<stopping, flyingCommit, listeners, walSyncerRunning>>
  /\ UNCHANGED <<useCommit, mgrVars, ctrVars, opVars, awVars, closeVars, bgVars, histVars>>
  /\ UNCHANGED <<added, popped, restart, final, stopAt, WalIoPercent, lastTrySyncDuration, sleepTime>>

\* then the deferred walSyncerRunning.Store(false)
SyncerExitStore ==
  /\ syncerPc = "exitStore"
  /\ walSyncerRunning' = FALSE
  /\ syncerPc' = "done"
  /\ UNCHANGED <<stopping, flyingCommit, listeners, walStopClosed>>
  /\ UNCHANGED <<useCommit, mgrVars, ctrVars, opVars, awVars, closeVars, bgVars, histVars>>
  /\ UNCHANGED <<added, popped, restart, final, stopAt, WalIoPercent, lastTrySyncDuration, sleepTime>>

\* ----------------------------------------------------- AwaitWALCommitted
\* the call: commit 0 returns, a commit already synced returns
AwaitCall(a, c) ==
  /\ useCommit
  /\ awPc[a] = "idle"
  /\ awaits' = awaits + 1
  /\ awCommit' = [awCommit EXCEPT ![a] = c]
  /\ awId' = [awId EXCEPT ![a] = 0]
  /\ awPc' = [awPc EXCEPT ![a] = IF c = 0 \/ IsWALCommited(c) THEN "done" ELSE "inc"]
  /\ UNCHANGED <<useCommit, mgrVars, ctrVars, opVars, syncerVars, closeVars, bgVars,
                 histVars>>
  /\ UNCHANGED <<added, popped, restart, final, stopAt, WalIoPercent, lastTrySyncDuration, sleepTime>>

\* mutant of AwaitInc: the caller goes to its receive without counting itself
AwaitIncNotCounted(a) ==
  /\ awPc[a] = "inc"
  /\ awPc' = [awPc EXCEPT ![a] = "recv"]
  /\ UNCHANGED <<ctrVars, awCommit, awId, awaits>>
  /\ UNCHANGED <<useCommit, mgrVars, opVars, syncerVars, closeVars, bgVars, histVars>>
  /\ UNCHANGED <<added, popped, restart, final, stopAt, WalIoPercent, lastTrySyncDuration, sleepTime>>

\* im.walNotifyListeners.Add(1)
AwaitInc(a) ==
  /\ awPc[a] = "inc"
  /\ walNotifyListeners' = walNotifyListeners + 1
  /\ awPc' = [awPc EXCEPT ![a] = "recv"]
  /\ UNCHANGED <<walCommit, walCommited, awCommit, awId, awaits>>
  /\ UNCHANGED <<useCommit, mgrVars, opVars, syncerVars, closeVars, bgVars, histVars>>
  /\ UNCHANGED <<added, popped, restart, final, stopAt, WalIoPercent, lastTrySyncDuration, sleepTime>>

\* im.walNotifyListeners.Add(-1); return when idFromChan >= commit, else loop
AwaitDec(a) ==
  /\ awPc[a] = "dec"
  /\ walNotifyListeners' = walNotifyListeners - 1
  /\ awPc' = [awPc EXCEPT ![a] = IF awId[a] >= awCommit[a] THEN "done" ELSE "inc"]
  /\ awId' = [awId EXCEPT ![a] = IF awId[a] >= awCommit[a] THEN awId[a] ELSE 0]
  /\ UNCHANGED <<walCommit, walCommited, awCommit, awaits>>
  /\ UNCHANGED <<useCommit, mgrVars, opVars, syncerVars, closeVars, bgVars, histVars>>
  /\ UNCHANGED <<added, popped, restart, final, stopAt, WalIoPercent, lastTrySyncDuration, sleepTime>>

\* the caller is free to call again
AwaitReturn(a) ==
  /\ awPc[a] = "done"
  /\ awPc' = [awPc EXCEPT ![a] = "idle"]
  /\ awCommit' = [awCommit EXCEPT ![a] = 0]
  /\ awId' = [awId EXCEPT ![a] = 0]
  /\ UNCHANGED awaits
  /\ UNCHANGED <<useCommit, mgrVars, ctrVars, opVars, syncerVars, closeVars, bgVars,
                 histVars>>
  /\ UNCHANGED <<added, popped, restart, final, stopAt, WalIoPercent, lastTrySyncDuration, sleepTime>>

\* ------------------------------------------------------ the periodic dump
\* the snapshot entries of one host: an ADD entry per blob, oldest first
HostEntries(idx, h) ==
  IF h \in DOMAIN idx
  THEN [i \in 1..Len(idx[h]) |-> [op |-> "ADD", host |-> h, blob |-> idx[h][i]]]
  ELSE <<>>

RECURSIVE DumpFrom(_, _)
DumpFrom(idx, hs) ==
  IF hs = <<>> THEN <<>> ELSE HostEntries(idx, Head(hs)) \o DumpFrom(idx, Tail(hs))

\* the snapshot of an Index: the entries of its hosts, in host order
DumpEntries(idx) == DumpFrom(idx, HostOrder)

\* replay of one entry: an ADD of an id the host holds is skipped, a POP that does
\* not match the host's oldest blob is skipped
ApplyEntry(idx, e) ==
  IF e.op = "ADD"
  THEN IF IndexHas(idx, e.host, e.blob.id) THEN idx ELSE IndexAdd(idx, e.host, e.blob)
  ELSE IF IndexPeek(idx, e.host) # NoBlob /\ IndexPeek(idx, e.host).id = e.blob.id
       THEN IndexRemoveHead(idx, e.host)
       ELSE idx

RECURSIVE ReplayEntries(_, _)
ReplayEntries(idx, w) ==
  IF w = <<>> THEN idx ELSE ReplayEntries(ApplyEntry(idx, Head(w)), Tail(w))

\* loadIndex: the snapshot entries streamed into a fresh Index
LoadIndex(snap) == ReplayEntries(<<>>, snap)

\* RecoverFromCrash: the snapshot is loaded and the WAL replayed over it
RecoverFromCrash(snap, w) == ReplayEntries(LoadIndex(snap), w)

\* performDump: under the lock, the Index is written over the snapshot, the WAL is
\* truncated and opsSinceDump reset; a failing dump changes nothing
PerformDump(ok) ==
  /\ mu = "free"
  /\ IF ok
     THEN /\ snapshot' = DumpEntries(hostIndex)
          /\ wal' = <<>>
          /\ opsSinceDump' = 0
     ELSE UNCHANGED <<snapshot, wal, opsSinceDump>>
  /\ UNCHANGED <<hostIndex, totalOps>>

\* periodicDump on a tick of dumpTicker: performDump, an error goes to the error channel
PeriodicDumpTick(ok) ==
  /\ dumpPc = "select"
  /\ ~tickerStopped
  /\ dumps < MaxDumps
  /\ dumps' = dumps + 1
  /\ filesClosed => ~ok
  /\ PerformDump(ok)
  /\ dumpPc' = IF ok THEN "select" ELSE "sendErr"
  /\ UNCHANGED fwdPc
  /\ UNCHANGED <<useCommit, ctrVars, opVars, syncerVars, awVars, closeVars, histVars>>
  /\ UNCHANGED <<added, popped, restart, final, stopAt, WalIoPercent, lastTrySyncDuration, sleepTime>>

\* the forwarder's select, case err := <-errChan: it logs the error
ForwardErr ==
  /\ fwdPc = "select"
  /\ dumpPc = "sendErr"
  /\ dumpPc' = "select"
  /\ UNCHANGED <<fwdPc, dumps>>
  /\ UNCHANGED <<useCommit, mgrVars, ctrVars, opVars, syncerVars, awVars, closeVars,
                 histVars>>
  /\ UNCHANGED <<added, popped, restart, final, stopAt, WalIoPercent, lastTrySyncDuration, sleepTime>>

\* the forwarder's periodicDumpStopChan <- stop meets periodicDump's select
ForwardStop ==
  /\ fwdPc = "send"
  /\ dumpPc = "select"
  /\ fwdPc' = "done"
  /\ dumpPc' = "done"
  /\ UNCHANGED dumps
  /\ UNCHANGED <<useCommit, mgrVars, ctrVars, opVars, syncerVars, awVars, closeVars,
                 histVars>>
  /\ UNCHANGED <<added, popped, restart, final, stopAt, WalIoPercent, lastTrySyncDuration, sleepTime>>

\* ----------------------------------------------------------------- Close
\* im.dumpTicker.Stop()
CloseCall ==
  /\ closePc = "idle"
  /\ closePc' = "sendStop"
  /\ tickerStopped' = TRUE
  /\ UNCHANGED <<closeErr, filesClosed>>
  /\ UNCHANGED <<useCommit, mgrVars, ctrVars, opVars, syncerVars, awVars, bgVars, histVars>>
  /\ UNCHANGED <<added, popped, restart, final, stopAt, WalIoPercent, lastTrySyncDuration, sleepTime>>

\* im.stopChan <- struct{}{} meets the forwarder's select; stopChan is made only
\* when useCommit is set, and a send on a nil channel blocks
CloseSendStop ==
  /\ closePc = "sendStop"
  /\ useCommit
  /\ fwdPc = "select"
  /\ closePc' = "sendWalStop"
  /\ fwdPc' = "send"
  /\ UNCHANGED <<closeErr, filesClosed, tickerStopped, dumpPc, dumps>>
  /\ UNCHANGED <<useCommit, mgrVars, ctrVars, opVars, syncerVars, awVars, histVars>>
  /\ UNCHANGED <<added, popped, restart, final, stopAt, WalIoPercent, lastTrySyncDuration, sleepTime>>

\* <-im.walStopChan returns once the syncer has closed the channel
CloseWaitAck ==
  /\ closePc = "waitAck"
  /\ walStopClosed
  /\ closePc' = "dump"
  /\ UNCHANGED <<closeErr, filesClosed, tickerStopped>>
  /\ UNCHANGED <<useCommit, mgrVars, ctrVars, opVars, syncerVars, awVars, bgVars, histVars>>
  /\ UNCHANGED <<added, popped, restart, final, stopAt, WalIoPercent, lastTrySyncDuration, sleepTime>>

\* the final performDump; an error returns
CloseDump(ok) ==
  /\ closePc = "dump"
  /\ PerformDump(ok)
  /\ closePc' = IF ok THEN "closeWal" ELSE "done"
  /\ closeErr' = IF ok THEN closeErr ELSE "dump"
  /\ UNCHANGED <<filesClosed, tickerStopped>>
  /\ UNCHANGED <<useCommit, ctrVars, opVars, syncerVars, awVars, bgVars, histVars>>
  /\ UNCHANGED <<added, popped, restart, final, stopAt, WalIoPercent, lastTrySyncDuration, sleepTime>>

\* im.walFile.Close(); an error returns
CloseWalFile(ok) ==
  /\ closePc = "closeWal"
  /\ filesClosed' = TRUE
  /\ closePc' = IF ok THEN "closeIndex" ELSE "done"
  /\ closeErr' = IF ok THEN closeErr ELSE "closeWal"
  /\ UNCHANGED tickerStopped
  /\ UNCHANGED <<useCommit, mgrVars, ctrVars, opVars, syncerVars, awVars, bgVars, histVars>>
  /\ UNCHANGED <<added, popped, restart, final, stopAt, WalIoPercent, lastTrySyncDuration, sleepTime>>

\* im.indexFile.Close(); an error returns
CloseIndexFile(ok) ==
  /\ closePc = "closeIndex"
  /\ closePc' = IF ok THEN "checkRunning" ELSE "done"
  /\ closeErr' = IF ok THEN closeErr ELSE "closeIndex"
  /\ UNCHANGED <<filesClosed, tickerStopped>>
  /\ UNCHANGED <<useCommit, mgrVars, ctrVars, opVars, syncerVars, awVars, bgVars, histVars>>
  /\ UNCHANGED <<added, popped, restart, final, stopAt, WalIoPercent, lastTrySyncDuration, sleepTime>>

\* if im.walSyncerRunning.Load() { return error }; return nil
CloseCheckRunning ==
  /\ closePc = "checkRunning"
  /\ closeErr' = IF walSyncerRunning THEN "running" ELSE "nil"
  /\ closePc' = "done"
  /\ UNCHANGED <<filesClosed, tickerStopped>>
  /\ UNCHANGED <<useCommit, mgrVars, ctrVars, opVars, syncerVars, awVars, bgVars, histVars>>
  /\ UNCHANGED <<added, popped, restart, final, stopAt, WalIoPercent, lastTrySyncDuration, sleepTime>>

\* --------------------------------------------------------------- restart
\* what an abrupt end of the process leaves of everything but the files, and what
\* NewIndexManager then sets up beside the Index
FreshProcess ==
  /\ mu' = "free" /\ op' = NoOp /\ opPc' = "idle" /\ helperPc' = "none"
  /\ filesClosed' = FALSE
  /\ opsSinceDump' = 0 /\ totalOps' = 0
  /\ walCommit' = 0 /\ walCommited' = 0 /\ walNotifyListeners' = 0
  /\ walSyncerRunning' = FALSE /\ walStopClosed' = FALSE
  /\ tickerStopped' = FALSE
  /\ syncerPc' = IF useCommit THEN "start" ELSE "none"
  /\ stopping' = FALSE /\ flyingCommit' = 0 /\ listeners' = 0
  /\ awPc' = [a \in Awaiters |-> "idle"]
  /\ awCommit' = [a \in Awaiters |-> 0]
  /\ awId' = [a \in Awaiters |-> 0]
  /\ closePc' = "idle" /\ closeErr' = "nil"
  /\ fwdPc' = "select" /\ dumpPc' = "select"
  /\ WalIoPercent' = DefaultIoPercent /\ lastTrySyncDuration' = 0 /\ sleepTime' = 0
  /\ appended' = 0 /\ synced' = 0 /\ issued' = <<>>
  /\ added' = [h \in Hosts |-> <<>>] /\ popped' = [h \in Hosts |-> <<>>]
  /\ stopAt' = -1 /\ final' = NoFinal
  /\ UNCHANGED <<useCommit, ret, opCount, awaits, dumps>>

\* mutant of Restart: the WAL is not looked at, the snapshot is loaded
RestartAlwaysLoads ==
  /\ hostIndex' = LoadIndex(snapshot)
  /\ UNCHANGED <<snapshot, wal>>
  /\ restart' = [n |-> restart.n + 1, how |-> "load", inFlight |-> mu # "free"]
  /\ FreshProcess

\* the process ends abruptly and NewIndexManager runs on the files it left: with
\* records in the WAL RecoverFromCrash, which ends with a dump, else loadIndex
Restart ==
  /\ IF wal # <<>>
     THEN /\ hostIndex' = RecoverFromCrash(snapshot, wal)
          /\ snapshot' = DumpEntries(hostIndex')
          /\ wal' = <<>>
     ELSE /\ hostIndex' = LoadIndex(snapshot)
          /\ UNCHANGED <<snapshot, wal>>
  /\ restart' = [n |-> restart.n + 1, how |-> IF wal # <<>> THEN "recover" ELSE "load",
                 inFlight |-> mu # "free"]
  /\ FreshProcess

\* ------------------------------------------------------- specifications
\* callers of Add, Pop and WALCommit, in either mode: at most maxOps calls
Mutators(hosts, ids, positions, maxOps) ==
  \/ \E h \in hosts, id \in ids, pos \in positions, size \in Sizes, ok \in BOOLEAN :
        opCount < maxOps /\ Add(h, id, pos, size, ok)
  \/ AddWALCommit
  \/ AddIndex
  \/ \E h \in hosts : opCount < maxOps /\ Pop(h)
  \/ opCount < maxOps /\ WALCommitCall
  \/ \E ok \in BOOLEAN : HelperWriteToWAL(ok)
  \/ HelperSendSuccess
  \/ PopRecvErr
  \/ PopWALCommit
  \/ PopReturn

\* the syncer goroutine and the callers of AwaitWALCommitted
Syncer(awaiters, maxAwaits) ==
  \/ SyncerStart
  \/ SyncerSelect
  \/ SyncerLoad
  \/ \E ok \in BOOLEAN, d \in NoDuration : SyncerSync(ok, d)
  \/ SyncerRetry
  \/ SyncerStore
  \/ SyncerCount
  \/ \E a \in awaiters : SyncerSend(a)
  \/ \E a \in awaiters, c \in 0..walCommit : awaits < maxAwaits /\ AwaitCall(a, c)
  \/ \E a \in awaiters : AwaitInc(a)
  \/ \E a \in awaiters : AwaitDec(a)
  \/ \E a \in awaiters : AwaitReturn(a)

\* Close and what it stops
Closing ==
  \/ CloseCall
  \/ CloseSendStop
  \/ ForwardStop
  \/ SyncerExitClose
  \/ SyncerExitStore
  \/ CloseWaitAck
  \/ \E ok \in BOOLEAN : CloseDump(ok)
  \/ \E ok \in BOOLEAN : CloseWalFile(ok)
  \/ \E ok \in BOOLEAN : CloseIndexFile(ok)
  \/ CloseCheckRunning

\* the periodic dump and its error forwarder
Dumping ==
  \/ \E ok \in BOOLEAN : PeriodicDumpTick(ok)
  \/ ForwardErr

InitCommit == Init /\ useCommit

\* grouped-commit mode: callers of Add, Pop, WALCommit and AwaitWALCommitted, the
\* syncer and Close
Next ==
  \/ Mutators({"h1"}, {"b1"}, {0}, MaxOps)
  \/ Syncer({"a1"}, MaxAwaits)
  \/ Closing

Spec == InitCommit /\ [][Next]_vars

\* either mode, without the syncer: callers of Add, Pop and WALCommit, and the
\* periodic dump
NextOps ==
  \/ Mutators(Hosts, Ids, Positions, MaxSeqOps)
  \/ Dumping

SpecOps == Init /\ [][NextOps]_vars

\* the goroutines of an Add or a Pop that has started keep running
OpsFairness ==
  /\ WF_vars(AddWALCommit) /\ WF_vars(AddIndex)
  /\ WF_vars(\E ok \in BOOLEAN : HelperWriteToWAL(ok))
  /\ WF_vars(HelperSendSuccess) /\ WF_vars(PopRecvErr)
  /\ WF_vars(PopWALCommit) /\ WF_vars(PopReturn)

FairOps == SpecOps /\ OpsFairness

\* a goroutine that can take its next step takes it; a sender and a receiver that
\* wait for each other meet
SyncerFairness ==
  /\ WF_vars(SyncerStart) /\ WF_vars(SyncerSelect) /\ WF_vars(SyncerLoad)
  /\ WF_vars(\E ok \in BOOLEAN, d \in NoDuration : SyncerSync(ok, d))
  /\ WF_vars(SyncerRetry)
  /\ WF_vars(SyncerStore) /\ WF_vars(SyncerCount)
  /\ WF_vars(SyncerExitClose) /\ WF_vars(SyncerExitStore)
  /\ \A a \in Awaiters :
       WF_vars(SyncerSend(a)) /\ WF_vars(AwaitInc(a)) /\ WF_vars(AwaitDec(a))

CloseFairness ==
  /\ WF_vars(CloseSendStop) /\ WF_vars(ForwardStop) /\ WF_vars(ForwardErr)
  /\ WF_vars(CloseWaitAck)
  /\ WF_vars(\E ok \in BOOLEAN : CloseDump(ok))
  /\ WF_vars(\E ok \in BOOLEAN : CloseWalFile(ok))
  /\ WF_vars(\E ok \in BOOLEAN : CloseIndexFile(ok))
  /\ WF_vars(CloseCheckRunning)

\* either mode, no Add or Pop: callers of WALCommit, AwaitWALCommitted and Close,
\* the syncer, the periodic dump and the stop forwarder, under fair scheduling
NextClose ==
  \/ opCount < MaxOps /\ WALCommitCall
  \/ Syncer(Awaiters, MaxFairAwaits)
  \/ Closing
  \/ Dumping

FairClose == Init /\ [][NextClose]_vars /\ SyncerFairness /\ CloseFairness

\* grouped-commit mode, no Close, no Add or Pop: callers of WALCommit and
\* AwaitWALCommitted and the syncer, under fair scheduling
NextAwait ==
  \/ opCount < MaxOps /\ WALCommitCall
  \/ Syncer(Awaiters, MaxFairAwaits)

FairAwait == InitCommit /\ [][NextAwait]_vars /\ SyncerFairness

\* grouped-commit mode, all callers, the syncer and Close, under fair scheduling
FairShutdown == Spec /\ OpsFairness /\ SyncerFairness /\ CloseFairness

InitSync == Init /\ ~useCommit

\* synchronous mode: callers of Add and Pop, the periodic dump, and abrupt restarts
NextCrash ==
  \/ \E h \in Hosts, id \in Ids, pos \in Positions, size \in Sizes, ok \in BOOLEAN :
        opCount < MaxSeqOps /\ Add(h, id, pos, size, ok)
  \/ AddIndex
  \/ \E h \in Hosts : opCount < MaxSeqOps /\ Pop(h)
  \/ \E ok \in BOOLEAN : HelperWriteToWAL(ok)
  \/ HelperSendSuccess
  \/ PopRecvErr
  \/ PopReturn
  \/ Dumping
  \/ restart.n < MaxRestarts /\ Restart

SpecCrash == InitSync /\ [][NextCrash]_vars

\* grouped-commit mode with WalIoPercent as a caller has set it
InitSleep == InitManager /\ useCommit /\ WalIoPercent \in Percents

\* the syncer alone, its fsyncs taking their time, and callers of WALCommit
NextSleep ==
  \/ SyncerStart
  \/ SyncerSelect
  \/ SyncerLoad
  \/ \E ok \in BOOLEAN, d \in Durations : SyncerSync(ok, d)
  \/ SyncerRetry
  \/ SyncerStore
  \/ SyncerCount
  \/ opCount < MaxOps /\ WALCommitCall

SpecSleep == InitSleep /\ [][NextSleep]_vars

\* ---------------------------------------------------------------- claims
\* C1: in grouped-commit mode, once AwaitWALCommitted(C) has returned for a commit id
\* C > 0, walCommited >= C and the WAL record of every mutation issued an id <= C
\* was appended before a successful fsync of the WAL.
C1_AwaitedCommitIsSynced ==
  \A a \in Awaiters :
    (awPc[a] = "done" /\ awCommit[a] > 0) =>
      /\ walCommited >= awCommit[a]
      /\ \A i \in 1..Len(issued) :
           (issued[i].id <= awCommit[a] /\ issued[i].rec > 0) => issued[i].rec <= synced

\* an awaiter has returned, after receiving from the syncer, on the commit id of the
\* second WAL record
C1_Witness ==
  \E a \in Awaiters :
    /\ awPc[a] = "done" /\ awId[a] > 0
    /\ \E i \in 1..Len(issued) : issued[i].id = awCommit[a] /\ issued[i].rec = 2

\* C2: in grouped-commit mode the synced commit id never exceeds the flying one.
C2_DurableAtMostFlying == walCommited <= walCommit

\* the syncer has stopped after a final sync that stored a commit id, with Add,
\* Pop or WALCommit calls behind it
C2_Witness == syncerPc = "done" /\ walCommited = walCommit /\ walCommit >= 2

\* C3: commit ids are strictly increasing in issue order (so no id is issued
\* twice), and of two WAL records the one appended first has the smaller id.
C3_CommitIdsIncrease ==
  \A i, j \in 1..Len(issued) :
    /\ i < j => issued[i].id < issued[j].id
    /\ (issued[i].rec > 0 /\ issued[j].rec > 0 /\ issued[i].rec < issued[j].rec)
         => issued[i].id < issued[j].id

\* two WAL records have been issued ids
C3_Witness == \E i, j \in 1..Len(issued) : issued[i].rec = 1 /\ issued[j].rec = 2

\* C4: no step lowers walCommited, so IsWALCommited(C), once true, stays true.
C4_DurableMonotone ==
  [][/\ walCommited' >= walCommited
     /\ \A c \in 0..walCommit : IsWALCommited(c) => IsWALCommited(c)']_vars

\* the stopping syncer is about to store a higher id over a stored one
C4_Witness ==
  syncerPc = "store" /\ stopping /\ walCommited > 0 /\ flyingCommit > walCommited
\* the step in which an Add or a Pop returns err to its caller
Returns(opname, err) == ret'.n # ret.n /\ ret'.op = opname /\ ret'.err = err

\* C5: when the WAL append of the POP record fails, Pop returns the error to its
\* caller with the blob still at the head of the host's queue and the lock released.
C5_PopWalFailureReturns ==
  (helperPc = "sendErr") ~>
     (/\ ret.n = opCount /\ ret.op = "pop" /\ ret.err = "wal"
      /\ mu = "free")

\* C6: a Pop on a host without blobs returns the empty error with commit 0, appends
\* nothing to the WAL, leaves the Index, the op counters and the flying id alone, ends
\* its helper and releases the lock.
C6_EmptyPopChangesNothing ==
  [][Returns("pop", "empty") =>
       /\ ret'.commit = 0 /\ ret'.blob = NoBlob
       /\ wal' = wal /\ appended' = appended
       /\ hostIndex' = hostIndex
       /\ totalOps' = totalOps /\ opsSinceDump' = opsSinceDump
       /\ walCommit' = walCommit
       /\ helperPc' = "done"
       /\ mu' = "free"]_vars

\* a Pop has returned the empty error for a host unknown to an Index that holds
\* blobs of another host
C6_Witness ==
  /\ ret.op = "pop" /\ ret.err = "empty" /\ helperPc = "done" /\ mu = "free"
  /\ hostIndex # <<>> /\ wal # <<>> /\ opsSinceDump > 0

\* C7: an Add whose WAL append fails returns the error with commit 0 and leaves the
\* Index, the flying id, the op counters and the WAL alone; the lock is released.
C7_FailedAddChangesNothing ==
  [][Returns("add", "wal") =>
       /\ ret'.commit = 0
       /\ hostIndex' = hostIndex
       /\ walCommit' = walCommit
       /\ totalOps' = totalOps /\ opsSinceDump' = opsSinceDump
       /\ wal' = wal
       /\ mu' = "free"]_vars

\* an Add has returned the WAL error in grouped-commit mode, with blobs in the Index
\* and commit ids issued
C7_Witness ==
  /\ ret.op = "add" /\ ret.err = "wal" /\ mu = "free"
  /\ useCommit /\ walCommit > 0 /\ hostIndex # <<>> /\ totalOps > 0
\* C8: in grouped-commit mode a Close call on an open manager returns.
C8_CloseReturns == (useCommit /\ closePc = "sendStop") ~> (closePc = "done")

\* C9: in synchronous mode a Close call on an open manager returns.
C9_SyncCloseReturns == (~useCommit /\ closePc = "sendStop") ~> (closePc = "done")

\* C10: in grouped-commit mode, if the syncer keeps completing successful fsyncs,
\* every AwaitWALCommitted(C) with 0 < C <= flying that did not return on its fast
\* path returns.
C10_AwaitReturns ==
  ([]<>(syncerPc = "store")) =>
     \A a \in Awaiters : (awPc[a] \in {"inc", "recv", "dec"}) ~> (awPc[a] = "done")

\* both awaiters have returned on a value received from the syncer, for different
\* commit ids
C10_Witness ==
  /\ awPc["a1"] = "done" /\ awPc["a2"] = "done"
  /\ awId["a1"] > 0 /\ awId["a2"] > 0
  /\ awCommit["a1"] # awCommit["a2"]

\* the first n elements of s
Prefix(s, n) == [i \in 1..n |-> s[i]]

\* the blobs a host holds
Queue(h) == IF h \in DOMAIN hostIndex THEN hostIndex[h] ELSE <<>>

AckedIndex ==
  IF mu = "pop" /\ opPc # "popWaitWAL"
  THEN IF op.host \in DOMAIN hostIndex
       THEN [hostIndex EXCEPT ![op.host] = <<op.blob>> \o @]
       ELSE hostIndex @@ (op.host :> <<op.blob>>)
  ELSE hostIndex

AfterCall ==
  IF mu = "add"
  THEN IF IndexHas(hostIndex, op.host, op.blob.id) THEN hostIndex
       ELSE IndexAdd(hostIndex, op.host, op.blob)
  ELSE IF mu = "pop" THEN IndexRemoveHead(AckedIndex, op.host)
  ELSE hostIndex

C13_ClosedManagerRejects ==
  (mu # "free" /\ op.afterClose /\ closeErr = "nil") ~> (mu = "free" /\ ret.err # "nil")

\* C14: a syncer that has read walNotifyListeners = N does its N sends on the notify
\* channel: it does not stay blocked in one of them.
C14_NotifySendsAreReceived == (syncerPc = "send") ~> (syncerPc # "send")

\* Close is past its wait for the syncer's acknowledgment
CloseAcked == closePc \in {"dump", "closeWal", "closeIndex", "checkRunning", "done"}

\* the syncer has left its loop
SyncerLeft == syncerPc \in {"exitClose", "exitStore", "done"}

\* C15: when the syncer has stopped after a successful last sync and the final dump
\* and both file closes succeed, Close returns no error: not the "still running"
\* error, the syncer having left its loop.
C15_CleanStopNoError ==
  (closePc = "done" /\ final.res = "ok" /\ SyncerLeft
     /\ closeErr \notin {"dump", "closeWal", "closeIndex"}) => closeErr = "nil"

\* C16: a syncer that has taken the stop makes one fsync and no more, and leaves its
\* loop only after it; Close starts its final dump and closes the files only after
\* the syncer's acknowledgment, so after an fsync that covers every WAL record
\* appended before the stop was taken.
C16_OneLastSyncBeforeDump ==
  /\ final.res # "twice"
  /\ stopping => stopAt >= 0
  /\ SyncerLeft => final.res \in {"ok", "failed"}
  /\ CloseAcked => /\ walStopClosed /\ SyncerLeft
                   /\ final.upto >= stopAt
  /\ filesClosed => CloseAcked /\ closePc # "dump"

\* Close has made its final dump after a successful last sync that covered a record
\* appended before the stop and one appended after it
C16_Witness ==
  /\ closePc = "closeWal" /\ final.res = "ok"
  /\ stopAt >= 1 /\ final.upto > stopAt

\* C17: a failed fsync leaves walCommited alone and sends to no awaiter; the syncer
\* goes on to its next cycle when it is not stopping and leaves when it is; an id is
\* stored only after a successful fsync that covers the records of every id up to it.
C17_FailedSyncPublishesNothing ==
  [][/\ (syncerPc = "sync" /\ syncerPc' \notin {"sync", "store"}) =>
          /\ walCommited' = walCommited /\ synced' = synced
          /\ awId' = awId /\ awPc' = awPc
          /\ syncerPc' = IF stopping THEN "exitClose" ELSE "retry"
     /\ syncerPc = "retry" => syncerPc' \in {"retry", "loop"}
     /\ syncerPc' = "store" =>
          \A i \in 1..Len(issued') :
            (issued'[i].id <= flyingCommit' /\ issued'[i].rec > 0) => issued'[i].rec <= synced']_vars

\* an fsync has failed with records and commit ids waiting, the syncer not stopping
C17_Witness ==
  /\ syncerPc = "retry" /\ ~stopping
  /\ appended > synced /\ walCommit > walCommited

\* C18: when the syncer's last fsync has failed, or the final dump, Close returns an
\* error.
C18_FailedStopIsReported ==
  (closePc = "done" /\ final.res = "failed") => closeErr # "nil"

\* C19: an Add or Pop that returns an error returns no commit id.
C19_ErrorsTakeNoCommitId ==
  (ret.op \in {"add", "pop"} /\ ret.err # "nil") => ret.commit = 0

\* the duty-cycle formula on the duration: max(WalMinInterval, d * (100 - p) / p)
DutyCycleSleep(d, p) ==
  LET t == (d * (100 - p)) \div p
  IN IF t < WalMinInterval THEN WalMinInterval ELSE t

\* C20: the sleep before a sync is the duty-cycle formula on the last sync's duration.
C20_SleepIsDutyCycle ==
  syncerPc \in {"load", "sync"} => sleepTime = DutyCycleSleep(lastTrySyncDuration, WalIoPercent)

====
